---- MODULE Spec2Model ----
(***************************************************************************)
(* Model of the RL engine prototype (src/rl-engine/main.py): the policy    *)
(* state file, its load/save, the action registry, the scorer, the         *)
(* epsilon-greedy selector and the learner, run by request workers.        *)
(*                                                                         *)
(* Numbers.  Weights, feature values, rewards and the learning rate are    *)
(* Python floats; they are modelled by integers (exact arithmetic on a     *)
(* fixed-point grid).  epsilon and the sample of random.random() are       *)
(* modelled in units of 1/Grid: sample s stands for s/Grid in [0,1).       *)
(*                                                                         *)
(* Files.  A directory maps the two path names to inodes; an inode holds   *)
(* a sequence of chunks, chunk i being the i-th part of the serialization  *)
(* of one state (or a hole of NUL bytes).  A document parses when all its  *)
(* NChunks chunks are parts of the same state.                             *)
(***************************************************************************)
EXTENDS Integers, Sequences, FiniteSets, TLC

VARIABLES
    DEFAULT_EPS,   \* configured exploration rate (environment, fixed at start)
    DEFAULT_LR,    \* configured learning rate (environment, fixed at start)
    dir,           \* path name -> inode (0: no such file)
    inodes,        \* inode -> content (sequence of chunks)
    pc,            \* worker -> position in its request
    req,           \* worker -> the request it serves / served last
    loaded,        \* worker -> state returned by _load_state for that request
    st,            \* worker -> its in-memory state dict
    resp,          \* worker -> response of the request (pending until returned)
    rnd,           \* worker -> sample drawn by random.random() (in 1/Grid)
    fd,            \* worker -> inode of its open temp file handle (0: none)
    off,           \* worker -> chunks written through that handle
    nreq           \* number of requests started

vars == <<DEFAULT_EPS, DEFAULT_LR, dir, inodes, pc, req, loaded, st, resp, rnd, fd, off, nreq>>
fsvars == <<dir, inodes>>

-----------------------------------------------------------------------------
(* Bounds *)

MaxReq == 2        \* requests started in one behaviour of the concurrent program
MaxUpdates == 2    \* the single writer serves a Learn while the loaded counter is below this
Grid == 2          \* resolution of epsilon and of the random sample
NChunks == 2       \* write calls per serialized document

Procs == {"w1", "w2"}
Inodes == 1..(Cardinality(Procs) + 2)

ActionIds == {"a", "b"}
KeyOrder == <<"f", "g">>          \* ordinal string order of the feature keys
Keys == {KeyOrder[i] : i \in 1..Len(KeyOrder)}

EpsValues == (-1)..(Grid + 1)     \* below 0, 0, inside (0,1), 1, above 1
LrValues == {2}
Samples == 0..(Grid - 1)
Rewards == {-1, 1}

-----------------------------------------------------------------------------
(* Values *)

EmptyMap == [k \in {} |-> 0]

Num(v) == [num |-> TRUE, v |-> v]      \* a value float() accepts
Bad == [num |-> FALSE, v |-> 0]        \* a value float() raises on

STATE_FILE == "policy_state.json"

\* variant: the document is written straight to the canonical path
tmp_in_place == STATE_FILE

tmp == "policy_state.json.tmp"

Names == {STATE_FILE, tmp}

SeqToSet(s) == {s[i] : i \in 1..Len(s)}

Put(m, k, v) == [x \in (DOMAIN m) \cup {k} |-> IF x = k THEN v ELSE m[x]]

Get(m, k, default) == IF k \in DOMAIN m THEN m[k] ELSE default

\* dict.setdefault(k, v)
SetDefault(m, k, v) == IF k \in DOMAIN m THEN m ELSE Put(m, k, v)

\* A JSON array is the record [list |-> its elements]; every other JSON
\* value of the model is a number or a mapping from strings.
JsonList(elements) == [list |-> elements]

IsDict(v) == "list" \notin DOMAIN v

\* The float nan, a value outside the numbers the model computes with.
NaN == -1000

IsNaN(x) == x = NaN

\* float multiplication and addition: nan in, nan out
FMul(x, y) == IF IsNaN(x) \/ IsNaN(y) THEN NaN ELSE x * y

FAdd(x, y) == IF IsNaN(x) \/ IsNaN(y) THEN NaN ELSE x + y

KeyRank(k) == CHOOSE i \in 1..Len(KeyOrder) : KeyOrder[i] = k

-----------------------------------------------------------------------------
(* Policy State Store: _load_state *)

DefaultMeta == [epsilon |-> DEFAULT_EPS, lr |-> DEFAULT_LR, updates |-> 0]

FreshState == [actions |-> EmptyMap, meta |-> DefaultMeta]

\* json.dump writes the document in NChunks pieces; piece i of a state.
json_dump_chunk(state, i) == <<state>>

Hole == <<>>

\* json.load succeeds when the file holds all the pieces of one document.
Parses(content) ==
    /\ Len(content) = NChunks
    /\ \A i \in 1..NChunks : content[i] # Hole /\ content[i] = content[1]

json_load(content) == content[1][1]

Exists(name) == dir[name] # 0

Content(name) == inodes[dir[name]]

_load_state ==
    IF ~Exists(STATE_FILE) THEN FreshState
    ELSE IF Parses(Content(STATE_FILE)) THEN json_load(Content(STATE_FILE))
    ELSE FreshState

-----------------------------------------------------------------------------
(* Feature Normalizer: _feature_items.  A features mapping is a sequence   *)
(* of <<key, raw value>> pairs with distinct keys (the dict's order).      *)

RECURSIVE Coerce(_)
Coerce(features) ==
    IF features = <<>> THEN <<>>
    ELSE LET h == Head(features)
         IN (IF h[2].num THEN << <<h[1], h[2].v>> >> ELSE <<>>) \o Coerce(Tail(features))

RECURSIVE InsertByKey(_, _)
InsertByKey(sorted, item) ==
    IF sorted = <<>> THEN <<item>>
    ELSE IF KeyRank(item[1]) < KeyRank(Head(sorted)[1]) THEN <<item>> \o sorted
    ELSE <<Head(sorted)>> \o InsertByKey(Tail(sorted), item)

RECURSIVE SortByKey(_)
SortByKey(items) ==
    IF items = <<>> THEN <<>>
    ELSE InsertByKey(SortByKey(SubSeq(items, 1, Len(items) - 1)), items[Len(items)])

_feature_items(features) == SortByKey(Coerce(features))

ItemKeys(items) == [i \in 1..Len(items) |-> items[i][1]]

-----------------------------------------------------------------------------
(* Action Registry: _ensure_action *)

\* variant: every given key is reset to 0
SetDefaultAll_overwrite(w, feature_keys) ==
    [k \in (DOMAIN w) \cup SeqToSet(feature_keys) |->
        IF k \in SeqToSet(feature_keys) THEN 0 ELSE w[k]]

RECURSIVE SetDefaultAll(_, _)
SetDefaultAll(w, feature_keys) ==
    IF feature_keys = <<>> THEN w
    ELSE LET k == Head(feature_keys)
         IN SetDefaultAll(IF k \in DOMAIN w THEN w ELSE Put(w, k, 0), Tail(feature_keys))

\* variant: a new entry is created without the feature keys
NewEntry_no_keys(feature_keys) == [weights |-> EmptyMap, count |-> 0]

\* variant: a new entry starts with count 1
NewEntry_counted(feature_keys) ==
    [weights |-> [k \in SeqToSet(feature_keys) |-> 0], count |-> 1]

NewEntry(feature_keys) ==
    [weights |-> [k \in SeqToSet(feature_keys) |-> 0], count |-> 0]

\* actions[action_id] = ... raises TypeError when "actions" holds a list
EnsureRaises(state) == ~IsDict(Get(state, "actions", EmptyMap))

_ensure_action(state, action_id, feature_keys) ==
    LET with_actions == SetDefault(state, "actions", EmptyMap)
        actions == with_actions.actions
    IN IF action_id \notin DOMAIN actions
       THEN [with_actions EXCEPT !.actions = Put(actions, action_id, NewEntry(feature_keys))]
       ELSE [with_actions EXCEPT !.actions[action_id].weights =
                 SetDefaultAll(actions[action_id].weights, feature_keys)]

RECURSIVE EnsureAll(_, _, _)
EnsureAll(state, candidates, keys) ==
    IF candidates = <<>> THEN state
    ELSE EnsureAll(_ensure_action(state, Head(candidates), keys), Tail(candidates), keys)

-----------------------------------------------------------------------------
(* Scorer: _score_action *)

RECURSIVE ScoreFrom(_, _, _)
ScoreFrom(s, action_weights, features) ==
    IF features = <<>> THEN s
    ELSE LET k == Head(features)[1]
             v == Head(features)[2]
         IN ScoreFrom(FAdd(s, FMul(Get(action_weights, k, 0), v)),
                      action_weights, Tail(features))

\* variant: the loop stops after the first feature
_score_action_first_only(action_weights, features) ==
    IF features = <<>> THEN 0
    ELSE Get(action_weights, Head(features)[1], 0) * Head(features)[2]

_score_action(action_weights, features) == ScoreFrom(0, action_weights, features)

-----------------------------------------------------------------------------
(* Selector: the epsilon-greedy branch of rl_act *)

\* variants: the comparison is <= ; the comparison is reversed
Explore_inclusive(sample, eps) == sample <= eps

Explore_inverted(sample, eps) == sample > eps

Explore(sample, eps) == sample < eps

\* the keys of the dict {a: ... for a in candidates}, in insertion order
RECURSIVE DictKeys(_, _)
DictKeys(seen, candidates) ==
    IF candidates = <<>> THEN seen
    ELSE DictKeys(IF Head(candidates) \in SeqToSet(seen) THEN seen
                  ELSE Append(seen, Head(candidates)), Tail(candidates))

Scores(state, candidates, features) ==
    [a \in SeqToSet(candidates) |-> _score_action(state.actions[a].weights, features)]

\* variant: a later key of equal score replaces the best one
Better_or_equal(new, best) == new >= best

\* every comparison with nan is false
Better(new, best) == ~IsNaN(new) /\ ~IsNaN(best) /\ new > best

\* max(scores, key=scores.get): the first key whose score no later key exceeds
RECURSIVE MaxFrom(_, _, _)
MaxFrom(best, keys, scores) ==
    IF keys = <<>> THEN best
    ELSE MaxFrom(IF Better(scores[Head(keys)], scores[best]) THEN Head(keys) ELSE best,
                 Tail(keys), scores)

MaxKey(scores, candidates) ==
    LET keys == DictKeys(<<>>, candidates)
    IN MaxFrom(Head(keys), Tail(keys), scores)

-----------------------------------------------------------------------------
(* Learner: the update of rl_learn *)

\* variant: the learning rate is left out of the update
Step_no_lr(lr, reward, v) == reward * v

Step(lr, reward, v) == FMul(FMul(lr, reward), v)

RECURSIVE UpdateWeights(_, _, _, _)
UpdateWeights(w, features, lr, reward) ==
    IF features = <<>> THEN w
    ELSE LET k == Head(features)[1]
             v == Head(features)[2]
         IN UpdateWeights(Put(w, k, FAdd(Get(w, k, 0), Step(lr, reward, v))),
                          Tail(features), lr, reward)

\* variant: the update counter is incremented, the action's count is not
Learned_no_count(state, action_id, features, reward) ==
    LET lr == state.meta.lr
        a == state.actions[action_id]
    IN [state EXCEPT
          !.actions[action_id].weights = UpdateWeights(a.weights, features, lr, reward),
          !.meta.updates = state.meta.updates + 1]

Learned(state, action_id, features, reward) ==
    LET lr == Get(state.meta, "lr", DEFAULT_LR)
        a == state.actions[action_id]
        learned == Put(Put(a, "weights", UpdateWeights(a.weights, features, lr, reward)),
                       "count", Get(a, "count", 0) + 1)
    IN [state EXCEPT
          !.actions[action_id] = learned,
          !.meta = Put(state.meta, "updates", Get(state.meta, "updates", 0) + 1)]

-----------------------------------------------------------------------------
(* Requests and responses *)

\* feature mappings as sent: empty, one key, two keys out of order, and one
\* with an entry float() rejects
FeatureInputs ==
    {<<>>,
     << <<"f", Num(1)>> >>,
     << <<"g", Num(1)>>, <<"f", Num(2)>> >>,
     << <<"f", Bad>>, <<"g", Num(1)>> >>}

CandidateLists ==
    {<<>>, <<"a">>, <<"a", "b">>, <<"b", "a">>, <<"b", "a", "b">>}

ActRequest(features, actions) ==
    [op |-> "act", features |-> features, actions |-> actions,
     action_id |-> "", reward |-> 0]

LearnRequest(features, action_id, reward) ==
    [op |-> "learn", features |-> features, actions |-> <<>>,
     action_id |-> action_id, reward |-> reward]

ActRequests == {ActRequest(f, c) : f \in FeatureInputs, c \in CandidateLists}

LearnRequests ==
    {LearnRequest(f, a, r) : f \in FeatureInputs, a \in ActionIds, r \in Rewards}

\* the narrower inputs of the concurrent specification
TheLearn == LearnRequest(<< <<"f", Num(1)>> >>, "a", 1)

ConcLearnRequests == {TheLearn}

ConcActRequests ==
    {ActRequest(<< <<"g", Num(1)>> >>, c) : c \in {<<>>, <<"a">>, <<"b", "a">>}}

NoReq == [op |-> "none", features |-> <<>>, actions |-> <<>>, action_id |-> "", reward |-> 0]

NoState == [actions |-> EmptyMap, meta |-> [epsilon |-> 0, lr |-> 0, updates |-> 0]]

NoResp ==
    [status |-> "none", action_id |-> "", mode |-> "", epsilon |-> 0,
     scores |-> EmptyMap, updates |-> 0, reward |-> 0]

ActResponse(action_id, eps, reason, scores) ==
    [status |-> "pending", action_id |-> action_id, mode |-> reason, epsilon |-> eps,
     scores |-> scores, updates |-> 0, reward |-> 0]

FallbackResponse ==
    [status |-> "pending", action_id |-> "tighten_inbound_rule", mode |-> "no-actions",
     epsilon |-> 0, scores |-> EmptyMap, updates |-> 0, reward |-> 0]

LearnResponse(action_id, reward, updates) ==
    [status |-> "pending", action_id |-> action_id, mode |-> "learn", epsilon |-> 0,
     scores |-> EmptyMap, updates |-> updates, reward |-> reward]

ErrorResponse ==
    [status |-> "error", action_id |-> "", mode |-> "", epsilon |-> 0,
     scores |-> EmptyMap, updates |-> 0, reward |-> 0]

Returned(r) == [r EXCEPT !.status = "ok"]

\* variant: the exception is swallowed and the prepared response is returned
Raised_absorbed(r) == Returned(r)

\* an exception leaves the handler: the request fails with a server error
\* instead of the response r it had prepared
Raised(r) == ErrorResponse

-----------------------------------------------------------------------------
(* File system *)

Referenced(i, d, f) ==
    \/ \E n \in DOMAIN d : d[n] = i
    \/ \E q \in Procs : f[q] = i

FreeInode == CHOOSE i \in Inodes : ~Referenced(i, dir, fd) /\
                 \A j \in Inodes : ~Referenced(j, dir, fd) => i <= j

\* an inode no name and no handle refers to is gone
Collect(ino, d, f) == [i \in Inodes |-> IF Referenced(i, d, f) THEN ino[i] ELSE <<>>]

\* write one chunk at chunk offset o (a gap left by a truncation reads as NULs)
WriteAt(content, o, chunk) ==
    [i \in 1..(IF Len(content) > o + 1 THEN Len(content) ELSE o + 1) |->
        IF i = o + 1 THEN chunk
        ELSE IF i <= Len(content) THEN content[i]
        ELSE Hole]

-----------------------------------------------------------------------------
(* Initial state: no state file, every worker idle *)

InitWith(eps_values, lr_values) ==
    /\ DEFAULT_EPS \in eps_values
    /\ DEFAULT_LR \in lr_values
    /\ dir = [n \in Names |-> 0]
    /\ inodes = [i \in Inodes |-> <<>>]
    /\ pc = [p \in Procs |-> "idle"]
    /\ req = [p \in Procs |-> NoReq]
    /\ loaded = [p \in Procs |-> NoState]
    /\ st = [p \in Procs |-> NoState]
    /\ resp = [p \in Procs |-> NoResp]
    /\ rnd = [p \in Procs |-> 0]
    /\ fd = [p \in Procs |-> 0]
    /\ off = [p \in Procs |-> 0]
    /\ nreq = 0

Init == InitWith(EpsValues, LrValues)

\* one configuration: epsilon strictly between 0 and 1, so that both branches occur
InitOne == InitWith({1}, LrValues)

-----------------------------------------------------------------------------
(* POST /rl/act, up to the call of _save_state *)

\* variant: the no-candidates case falls through to _save_state
AfterNoCandidates_save == "open"

\* the early return of the no-candidates case
AfterNoCandidates == "done"

\* state.setdefault("meta", ...) raises when the document is not an object,
\* meta.get(...) raises when its "meta" is not one
MetaRaises(state) ==
    \/ ~IsDict(state)
    \/ ~IsDict(SetDefault(state, "meta", DefaultMeta).meta)

rl_act(p, requests) ==
    /\ pc[p] = "idle"
    /\ \E r \in requests :
         LET document == _load_state
             state == SetDefault(document, "meta", DefaultMeta)
             eps == Get(state.meta, "epsilon", DEFAULT_EPS)
             features_items == _feature_items(r.features)
             keys == ItemKeys(features_items)
             candidates == r.actions
         IN /\ req' = [req EXCEPT ![p] = r]
            /\ loaded' = [loaded EXCEPT ![p] = document]
            /\ IF MetaRaises(document)
               THEN /\ st' = [st EXCEPT ![p] = document]
                    /\ rnd' = [rnd EXCEPT ![p] = 0]
                    /\ pc' = [pc EXCEPT ![p] = "done"]
                    /\ resp' = [resp EXCEPT ![p] = Raised(@)]
               ELSE IF candidates = <<>>
               THEN /\ st' = [st EXCEPT ![p] = state]
                    /\ rnd' = [rnd EXCEPT ![p] = 0]
                    /\ pc' = [pc EXCEPT ![p] = AfterNoCandidates]
                    /\ resp' = [resp EXCEPT ![p] =
                          IF AfterNoCandidates = "done" THEN Returned(FallbackResponse)
                          ELSE FallbackResponse]
               ELSE IF EnsureRaises(state)
               THEN /\ st' = [st EXCEPT ![p] = SetDefault(state, "actions", EmptyMap)]
                    /\ rnd' = [rnd EXCEPT ![p] = 0]
                    /\ pc' = [pc EXCEPT ![p] = "done"]
                    /\ resp' = [resp EXCEPT ![p] = Raised(@)]
               ELSE \E sample \in Samples, pick \in 1..Len(candidates) :
                      LET ensured == EnsureAll(state, candidates, keys)
                          explore == Explore(sample, eps)
                          scores == IF explore THEN EmptyMap
                                    ELSE Scores(ensured, candidates, features_items)
                          chosen == IF explore THEN candidates[pick]
                                    ELSE MaxKey(scores, candidates)
                          reason == IF explore THEN "explore" ELSE "exploit"
                      IN /\ explore \/ pick = 1
                         /\ st' = [st EXCEPT ![p] = ensured]
                         /\ rnd' = [rnd EXCEPT ![p] = sample]
                         /\ pc' = [pc EXCEPT ![p] = "open"]
                         /\ resp' = [resp EXCEPT ![p] = ActResponse(chosen, eps, reason, scores)]
    /\ UNCHANGED <<DEFAULT_EPS, DEFAULT_LR, dir, inodes, fd, off>>

(* POST /rl/learn, up to the call of _save_state *)

rl_learn(p, requests, max_updates) ==
    /\ pc[p] = "idle"
    /\ \E r \in requests :
         LET document == _load_state
             state == SetDefault(document, "meta", DefaultMeta)
             features_items == _feature_items(r.features)
             keys == ItemKeys(features_items)
             ensured == _ensure_action(state, r.action_id, keys)
             after == Learned(ensured, r.action_id, features_items, r.reward)
         IN /\ req' = [req EXCEPT ![p] = r]
            /\ loaded' = [loaded EXCEPT ![p] = document]
            /\ IF MetaRaises(document)
               THEN /\ st' = [st EXCEPT ![p] = document]
                    /\ pc' = [pc EXCEPT ![p] = "done"]
                    /\ resp' = [resp EXCEPT ![p] = Raised(@)]
               ELSE IF EnsureRaises(state)
               THEN /\ st' = [st EXCEPT ![p] = SetDefault(state, "actions", EmptyMap)]
                    /\ pc' = [pc EXCEPT ![p] = "done"]
                    /\ resp' = [resp EXCEPT ![p] = Raised(@)]
               ELSE /\ Get(state.meta, "updates", 0) < max_updates
                    /\ st' = [st EXCEPT ![p] = after]
                    /\ pc' = [pc EXCEPT ![p] = "open"]
                    /\ resp' = [resp EXCEPT ![p] =
                          LearnResponse(r.action_id, r.reward, after.meta.updates)]
    /\ UNCHANGED <<DEFAULT_EPS, DEFAULT_LR, dir, inodes, rnd, fd, off>>

-----------------------------------------------------------------------------
(* _save_state, one action per system call *)

\* open(tmp, "w"): create the temp file or truncate the one that is there
open_tmp(p) ==
    /\ pc[p] = "open"
    /\ LET i == IF Exists(tmp) THEN dir[tmp] ELSE FreeInode
       IN /\ dir' = [dir EXCEPT ![tmp] = i]
          /\ inodes' = [inodes EXCEPT ![i] = <<>>]
          /\ fd' = [fd EXCEPT ![p] = i]
    /\ off' = [off EXCEPT ![p] = 0]
    /\ pc' = [pc EXCEPT ![p] = "write"]
    /\ UNCHANGED <<DEFAULT_EPS, DEFAULT_LR, req, loaded, st, resp, rnd>>

\* one write of json.dump through the handle; the last one closes it
write_tmp(p) ==
    /\ pc[p] = "write"
    /\ LET last == off[p] + 1 = NChunks
           fd2 == [fd EXCEPT ![p] = IF last THEN 0 ELSE @]
           written == [inodes EXCEPT ![fd[p]] =
                         WriteAt(@, off[p], json_dump_chunk(st[p], off[p] + 1))]
       IN /\ fd' = fd2
          /\ inodes' = Collect(written, dir, fd2)
          /\ off' = [off EXCEPT ![p] = IF last THEN 0 ELSE @ + 1]
          /\ pc' = [pc EXCEPT ![p] = IF last THEN "replace" ELSE "write"]
    /\ UNCHANGED <<DEFAULT_EPS, DEFAULT_LR, dir, req, loaded, st, resp, rnd>>

\* os.replace(tmp, STATE_FILE), then the handler returns its response
replace_tmp(p) ==
    /\ pc[p] = "replace"
    /\ Exists(tmp)
    /\ LET dir2 == [n \in Names |-> IF n = STATE_FILE THEN dir[tmp] ELSE 0]
       IN /\ dir' = dir2
          /\ inodes' = Collect(inodes, dir2, fd)
    /\ resp' = [resp EXCEPT ![p] = Returned(@)]
    /\ pc' = [pc EXCEPT ![p] = "done"]
    /\ UNCHANGED <<DEFAULT_EPS, DEFAULT_LR, req, loaded, st, rnd, fd, off>>

\* os.replace raises FileNotFoundError: another request renamed the temp file away
replace_enoent(p) ==
    /\ pc[p] = "replace"
    /\ ~Exists(tmp)
    /\ resp' = [resp EXCEPT ![p] = Raised(@)]
    /\ pc' = [pc EXCEPT ![p] = "done"]
    /\ UNCHANGED <<DEFAULT_EPS, DEFAULT_LR, dir, inodes, req, loaded, st, rnd, fd, off>>

\* open, write or os.replace raises OSError (disk full, permission denied):
\* the with-block closes the handle and the exception ends the request
save_io_error(p) ==
    /\ pc[p] \in {"open", "write", "replace"}
    /\ LET fd2 == [fd EXCEPT ![p] = 0]
       IN /\ fd' = fd2
          /\ inodes' = Collect(inodes, dir, fd2)
    /\ off' = [off EXCEPT ![p] = 0]
    /\ resp' = [resp EXCEPT ![p] = Raised(@)]
    /\ pc' = [pc EXCEPT ![p] = "done"]
    /\ UNCHANGED <<DEFAULT_EPS, DEFAULT_LR, dir, req, loaded, st, rnd>>

\* the worker is killed inside _save_state; a new worker takes its place
crash(p) ==
    /\ pc[p] \in {"open", "write", "replace"}
    /\ LET fd2 == [fd EXCEPT ![p] = 0]
       IN /\ fd' = fd2
          /\ inodes' = Collect(inodes, dir, fd2)
    /\ off' = [off EXCEPT ![p] = 0]
    /\ req' = [req EXCEPT ![p] = NoReq]
    /\ loaded' = [loaded EXCEPT ![p] = NoState]
    /\ st' = [st EXCEPT ![p] = NoState]
    /\ resp' = [resp EXCEPT ![p] = NoResp]
    /\ rnd' = [rnd EXCEPT ![p] = 0]
    /\ pc' = [pc EXCEPT ![p] = "idle"]
    /\ UNCHANGED <<DEFAULT_EPS, DEFAULT_LR, dir>>

\* the response is delivered and the worker is free for the next request
finish(p) ==
    /\ pc[p] = "done"
    /\ req' = [req EXCEPT ![p] = NoReq]
    /\ loaded' = [loaded EXCEPT ![p] = NoState]
    /\ st' = [st EXCEPT ![p] = NoState]
    /\ resp' = [resp EXCEPT ![p] = NoResp]
    /\ rnd' = [rnd EXCEPT ![p] = 0]
    /\ pc' = [pc EXCEPT ![p] = "idle"]
    /\ UNCHANGED <<DEFAULT_EPS, DEFAULT_LR, dir, inodes, fd, off>>

-----------------------------------------------------------------------------
(* Specifications *)

Started == nreq < MaxReq /\ nreq' = nreq + 1

\* The program as written: requests of different workers interleave freely.
Next ==
    \E p \in Procs :
        \/ rl_act(p, ConcActRequests) /\ Started
        \/ rl_learn(p, ConcLearnRequests, MaxReq) /\ Started
        \/ open_tmp(p) /\ UNCHANGED nreq
        \/ write_tmp(p) /\ UNCHANGED nreq
        \/ replace_tmp(p) /\ UNCHANGED nreq
        \/ replace_enoent(p) /\ UNCHANGED nreq
        \/ finish(p) /\ UNCHANGED nreq

Spec == InitOne /\ [][Next]_vars

\* One request at a time and no I/O failure: the single-writer discipline,
\* here a single worker serving the requests one after the other.
Writer == "w1"

Alone(p) == \A q \in Procs \ {p} : pc[q] = "idle"

NextSerial ==
    \/ rl_act(Writer, ActRequests) /\ UNCHANGED nreq
    \/ rl_learn(Writer, LearnRequests, MaxUpdates) /\ UNCHANGED nreq
    \/ open_tmp(Writer) /\ UNCHANGED nreq
    \/ write_tmp(Writer) /\ UNCHANGED nreq
    \/ replace_tmp(Writer) /\ UNCHANGED nreq
    \/ finish(Writer) /\ UNCHANGED nreq

SpecSerial == InitOne /\ [][NextSerial]_vars

\* A single writer at a time whose save may fail or be killed at any system call,
\* under every configuration of the exploration rate.
NextCrash ==
    \E p \in Procs :
        \/ Alone(p) /\ rl_act(p, ConcActRequests) /\ UNCHANGED nreq
        \/ Alone(p) /\ rl_learn(p, ConcLearnRequests, MaxUpdates) /\ UNCHANGED nreq
        \/ open_tmp(p) /\ UNCHANGED nreq
        \/ write_tmp(p) /\ UNCHANGED nreq
        \/ replace_tmp(p) /\ UNCHANGED nreq
        \/ save_io_error(p) /\ UNCHANGED nreq
        \/ crash(p) /\ UNCHANGED nreq
        \/ finish(p) /\ UNCHANGED nreq

SpecCrash == Init /\ [][NextCrash]_vars

\* Documents and requests the code does not validate.  The state file was
\* put there by something else: an empty file, the array [], an object
\* whose "actions" or whose "meta" is an array, or the object {}.
ForeignDocuments ==
    {JsonList(<<>>),
     [actions |-> JsonList(<<>>), meta |-> DefaultMeta],
     [actions |-> EmptyMap, meta |-> JsonList(<<>>)],
     EmptyMap}

ForeignContents ==
    {<<>>} \cup {[i \in 1..NChunks |-> json_dump_chunk(d, i)] : d \in ForeignDocuments}

\* Learn requests: a regular one, one with an empty action id, one with
\* reward nan
UncheckedLearnRequests ==
    {TheLearn,
     LearnRequest(<< <<"f", Num(1)>> >>, "", 1),
     LearnRequest(<< <<"f", Num(1)>> >>, "a", NaN)}

InitUnchecked ==
    /\ DEFAULT_EPS = 1
    /\ DEFAULT_LR \in LrValues
    /\ \E c \in ForeignContents :
          /\ dir = [n \in Names |-> IF n = STATE_FILE THEN 1 ELSE 0]
          /\ inodes = [i \in Inodes |-> IF i = 1 THEN c ELSE <<>>]
    /\ pc = [p \in Procs |-> "idle"]
    /\ req = [p \in Procs |-> NoReq]
    /\ loaded = [p \in Procs |-> NoState]
    /\ st = [p \in Procs |-> NoState]
    /\ resp = [p \in Procs |-> NoResp]
    /\ rnd = [p \in Procs |-> 0]
    /\ fd = [p \in Procs |-> 0]
    /\ off = [p \in Procs |-> 0]
    /\ nreq = 0

NextUnchecked ==
    \/ rl_act(Writer, ConcActRequests) /\ UNCHANGED nreq
    \/ rl_learn(Writer, UncheckedLearnRequests, MaxUpdates) /\ UNCHANGED nreq
    \/ open_tmp(Writer) /\ UNCHANGED nreq
    \/ write_tmp(Writer) /\ UNCHANGED nreq
    \/ replace_tmp(Writer) /\ UNCHANGED nreq
    \/ finish(Writer) /\ UNCHANGED nreq

SpecUnchecked == InitUnchecked /\ [][NextUnchecked]_vars

-----------------------------------------------------------------------------
(* Views of the state the claims speak about *)

\* the canonical file holds a complete document
HasDoc == Exists(STATE_FILE) /\ Parses(Content(STATE_FILE))

\* what a load of the canonical file returns now
Persisted == _load_state

\* what is at the canonical path: whether it exists, and its bytes
Canonical == <<Exists(STATE_FILE), IF Exists(STATE_FILE) THEN Content(STATE_FILE) ELSE <<>> >>

\* the complete serialization of a state
Serialized(state) == [i \in 1..NChunks |-> json_dump_chunk(state, i)]

\* the (key, value) features of a request: its entries with a numeric value
FeatureSet(r) == {<<e[1], e[2].v>> : e \in {x \in SeqToSet(r.features) : x[2].num}}

FeatureKeys(r) == {e[1] : e \in FeatureSet(r)}

OldWeights(state, a) ==
    IF a \in DOMAIN state.actions THEN state.actions[a].weights ELSE EmptyMap

OldCount(state, a) ==
    IF a \in DOMAIN state.actions THEN state.actions[a].count ELSE 0

Served(p, op) == pc[p] = "done" /\ req[p].op = op /\ resp[p].status = "ok"

-----------------------------------------------------------------------------
(* C1: when every worker has run one Learn of the same action and features, *)
(* concurrently, starting with no state file, and all of them have returned *)
(* successfully, the persisted count of the action and the persisted update *)
(* counter both equal the number of workers: no update is lost.             *)

C1_NoLostUpdate ==
    (/\ nreq = Cardinality(Procs)
     /\ \A p \in Procs : Served(p, "learn") /\ req[p] = TheLearn)
    => /\ HasDoc
       /\ "a" \in DOMAIN Persisted.actions
       /\ Persisted.actions["a"].count = Cardinality(Procs)
       /\ Persisted.meta.updates = Cardinality(Procs)

(* C2: with a single writer whose save may fail or be killed at any system  *)
(* call, every step leaves the canonical path as it was or replaces it, in  *)
(* the rename, by the complete serialization of the writer's state; so the  *)
(* canonical file is never partially written.                               *)

C2_SaveCrashSafe ==
    [][/\ Canonical' # Canonical =>
            \E p \in Procs : pc[p] = "replace" /\ Canonical' = <<TRUE, Serialized(st[p])>>
       /\ Exists(STATE_FILE)' => Parses(Content(STATE_FILE))']_vars

\* a save was interrupted between its writes while a complete state file exists
C2_Witness ==
    /\ HasDoc
    /\ Exists(tmp)
    /\ Len(Content(tmp)) \in 1..(NChunks - 1)
    /\ \A p \in Procs : pc[p] = "idle"

(* C3: whenever the canonical file goes from one complete document to       *)
(* another, the update counter of the new one is at least that of the old.  *)

C3_UpdatesNeverDecrease ==
    [][(HasDoc /\ HasDoc') => Persisted'.meta.updates >= Persisted.meta.updates]_vars

(* C4: a Learn served by the single writer persists, for every feature      *)
(* (k, v) of the request, weight w[k] = old w[k] (0 if absent) + lr*reward*v *)
(* with lr the learning rate of the loaded state, keeps the action's other  *)
(* weights, adds 1 to the action's count and to meta.updates, and returns   *)
(* the update counter it persisted.                                         *)

C4_LearnExact ==
    \A p \in Procs :
        Served(p, "learn") =>
            LET r == req[p]
                a == r.action_id
                old == loaded[p]
                oldw == OldWeights(old, a)
            IN /\ HasDoc
               /\ a \in DOMAIN Persisted.actions
               /\ LET neww == Persisted.actions[a].weights
                  IN /\ DOMAIN neww = (DOMAIN oldw) \cup FeatureKeys(r)
                     /\ \A e \in FeatureSet(r) :
                            neww[e[1]] = Get(oldw, e[1], 0) + old.meta.lr * r.reward * e[2]
                     /\ \A k \in (DOMAIN oldw) \ FeatureKeys(r) : neww[k] = oldw[k]
               /\ Persisted.actions[a].count = OldCount(old, a) + 1
               /\ Persisted.meta.updates = old.meta.updates + 1
               /\ resp[p].updates = Persisted.meta.updates

\* a Learn was served on an action that already had a non-zero weight for a
\* feature of the request and a weight for a key the request does not have,
\* while an entry of the request was dropped as non-numeric
C4_Witness ==
    \E p \in Procs :
        /\ Served(p, "learn")
        /\ \E e \in FeatureSet(req[p]) :
              /\ e[1] \in DOMAIN OldWeights(loaded[p], req[p].action_id)
              /\ OldWeights(loaded[p], req[p].action_id)[e[1]] # 0
        /\ (DOMAIN OldWeights(loaded[p], req[p].action_id)) \ FeatureKeys(req[p]) # {}
        /\ Len(req[p].features) > Cardinality(FeatureSet(req[p]))

-----------------------------------------------------------------------------
(* Views used by the claims about Act *)

\* sum over a set of (key, value) features of weight[key] * value, 0 for a missing key
RECURSIVE InnerProduct(_, _)
InnerProduct(w, fs) ==
    IF fs = {} THEN 0
    ELSE LET e == CHOOSE x \in fs : TRUE
         IN Get(w, e[1], 0) * e[2] + InnerProduct(w, fs \ {e})

\* worker p holds the response of an Act with candidates (not yet or just returned)
Acting(p) ==
    /\ req[p].op = "act"
    /\ req[p].actions # <<>>
    /\ resp[p].status \in {"pending", "ok"}

Exploiting(p) == Acting(p) /\ resp[p].mode = "exploit"

\* the score of the j-th candidate of p's request under p's in-memory weights
ScoreOf(p, j) ==
    InnerProduct(st[p].actions[req[p].actions[j]].weights, FeatureSet(req[p]))

\* the position of the first candidate no candidate scores higher than
FirstMax(p) ==
    CHOOSE j \in 1..Len(req[p].actions) :
        /\ \A k \in 1..Len(req[p].actions) : ScoreOf(p, k) <= ScoreOf(p, j)
        /\ \A k \in 1..(j - 1) : ScoreOf(p, k) < ScoreOf(p, j)

\* the worker steps (its own position, request or file handle changes)
Steps(p) == <<pc[p], req[p], fd[p], off[p]>>' # <<pc[p], req[p], fd[p], off[p]>>

KeyLists == {<<>>, <<"f">>, <<"g">>, <<"f", "g">>, <<"g", "f">>, <<"f", "f">>}

-----------------------------------------------------------------------------
(* C5: in exploit mode the chosen action is the first candidate, in the     *)
(* order of the candidate list, whose score is maximal among all the        *)
(* candidates; the choice is a function of the weights, the features and    *)
(* the candidate list alone.                                                *)

C5_StableArgmax ==
    \A p \in Procs :
        Exploiting(p) => resp[p].action_id = req[p].actions[FirstMax(p)]

\* an exploit whose list repeats a candidate and where two different
\* candidates tie at a non-zero maximal score
C5_Witness ==
    \E p \in Procs :
        /\ Exploiting(p)
        /\ Cardinality(SeqToSet(req[p].actions)) < Len(req[p].actions)
        /\ ScoreOf(p, FirstMax(p)) # 0
        /\ \E k \in 1..Len(req[p].actions) :
              /\ req[p].actions[k] # req[p].actions[FirstMax(p)]
              /\ ScoreOf(p, k) = ScoreOf(p, FirstMax(p))

(* C6: in exploit mode the returned scores have one entry per candidate,    *)
(* each the inner product of the action's loaded weights with the request   *)
(* features, a missing weight counting 0; and scoring leaves every weight   *)
(* the action had as it was.                                                *)

C6_ScoresAreInnerProducts ==
    \A p \in Procs :
        Exploiting(p) =>
            /\ DOMAIN resp[p].scores = SeqToSet(req[p].actions)
            /\ \A a \in SeqToSet(req[p].actions) :
                  /\ resp[p].scores[a] =
                        InnerProduct(OldWeights(loaded[p], a), FeatureSet(req[p]))
                  /\ \A k \in DOMAIN OldWeights(loaded[p], a) :
                        st[p].actions[a].weights[k] = OldWeights(loaded[p], a)[k]

\* an exploit with a score that sums two non-zero terms
C6_Witness ==
    \E p \in Procs :
        /\ Exploiting(p)
        /\ \E a \in SeqToSet(req[p].actions) :
              /\ Cardinality(FeatureSet(req[p])) = 2
              /\ \A e \in FeatureSet(req[p]) : Get(OldWeights(loaded[p], a), e[1], 0) # 0

(* C7: an Act with candidates explores exactly when its sample is below     *)
(* epsilon; when it explores, the chosen action is one of the candidates    *)
(* and the scores are empty; with epsilon = 1 (Grid units) it explores.     *)

C7_ExploreBranch ==
    \A p \in Procs :
        Acting(p) =>
            /\ resp[p].mode \in {"explore", "exploit"}
            /\ resp[p].mode = "explore" <=> rnd[p] < loaded[p].meta.epsilon
            /\ resp[p].mode = "explore" =>
                  /\ resp[p].action_id \in SeqToSet(req[p].actions)
                  /\ resp[p].scores = EmptyMap
            /\ loaded[p].meta.epsilon = Grid => resp[p].mode = "explore"

\* an explore under an epsilon strictly between 0 and 1 that returned a
\* candidate other than the first
C7_Witness ==
    \E p \in Procs :
        /\ Acting(p)
        /\ pc[p] = "done"
        /\ resp[p].mode = "explore"
        /\ loaded[p].meta.epsilon \in 1..(Grid - 1)
        /\ resp[p].action_id # req[p].actions[1]

(* C8: epsilon is used as configured, without clamping: above 1 every Act   *)
(* with candidates explores, at or below 0 every one exploits, whatever the *)
(* sample; the response reports, and the state keeps, the same epsilon.     *)

C8_EpsilonOutOfRange ==
    \A p \in Procs :
        Acting(p) =>
            /\ loaded[p].meta.epsilon > Grid => resp[p].mode = "explore"
            /\ loaded[p].meta.epsilon <= 0 => resp[p].mode = "exploit"
            /\ resp[p].epsilon = DEFAULT_EPS
            /\ st[p].meta.epsilon = DEFAULT_EPS

\* an Act under an epsilon above 1 that drew the largest sample and returned
C8_Witness ==
    \E p \in Procs :
        /\ Acting(p)
        /\ pc[p] = "done"
        /\ loaded[p].meta.epsilon > Grid
        /\ rnd[p] = Grid - 1

(* C9: a worker serving an Act without candidates returns the fallback      *)
(* action with the "no-actions" marker and none of its steps changes the    *)
(* file system: the canonical state file is not written.                    *)

C9_NoCandidatesNoWrite ==
    [][\A p \in Procs :
          (req[p]'.op = "act" /\ req[p]'.actions = <<>> /\ Steps(p)) =>
              /\ UNCHANGED fsvars
              /\ resp[p]' = Returned(FallbackResponse)
              /\ pc[p]' = "done"]_vars

\* an Act without candidates was served while the state file held learned weights
C9_Witness ==
    \E p \in Procs :
        /\ Served(p, "act")
        /\ req[p].actions = <<>>
        /\ resp[p].mode = "no-actions"
        /\ HasDoc
        /\ Persisted.meta.updates > 0

\* no request is in flight: the next request loads Persisted
Quiet == \A p \in Procs : pc[p] = "idle"

(* C10: _ensure_action is idempotent: applied to any state a request can    *)
(* load, with any action identifier and any list of feature keys, a second  *)
(* call with the same arguments changes nothing.                            *)

C10_EnsureIdempotent ==
    Quiet =>
        \A a \in ActionIds : \A ks \in KeyLists :
            LET once == _ensure_action(Persisted, a, ks)
            IN _ensure_action(once, a, ks) = once

\* the state to load has an action with learned weights that lacks a key, and
\* another action is absent: both branches of the ensure step change it
C10_Witness ==
    /\ Quiet
    /\ \E a \in DOMAIN Persisted.actions :
          /\ \E k \in DOMAIN Persisted.actions[a].weights :
                Persisted.actions[a].weights[k] # 0
          /\ \E k \in Keys : _ensure_action(Persisted, a, <<k>>) # Persisted
    /\ \E b \in ActionIds \ DOMAIN Persisted.actions :
          _ensure_action(Persisted, b, <<"f", "g">>) # Persisted

(* C11: applied to any state a request can load,                            *)
(* _ensure_action creates for a new action an entry whose weights are       *)
(* exactly the given keys, each 0, with count 0; for an existing action it  *)
(* adds the missing keys with weight 0 and keeps every existing weight and  *)
(* the count; every other action's entry and the meta are unchanged.        *)

C11_EnsureNeverOverwrites ==
    Quiet =>
        \A a \in ActionIds : \A ks \in KeyLists :
            LET s == Persisted
                t == _ensure_action(s, a, ks)
            IN /\ DOMAIN t.actions = (DOMAIN s.actions) \cup {a}
               /\ t.meta = s.meta
               /\ \A b \in (DOMAIN s.actions) \ {a} : t.actions[b] = s.actions[b]
               /\ DOMAIN t.actions[a].weights = (DOMAIN OldWeights(s, a)) \cup SeqToSet(ks)
               /\ \A k \in DOMAIN t.actions[a].weights :
                     t.actions[a].weights[k] = Get(OldWeights(s, a), k, 0)
               /\ t.actions[a].count = OldCount(s, a)

\* the state to load has two actions, one of which has a non-zero weight
\* for "f" and a count above 0
C11_Witness ==
    /\ Quiet
    /\ DOMAIN Persisted.actions = ActionIds
    /\ \E a \in ActionIds :
          /\ "f" \in DOMAIN Persisted.actions[a].weights
          /\ Persisted.actions[a].weights["f"] # 0
          /\ Persisted.actions[a].count > 0

\* the sum of the count fields over the actions of a state
RECURSIVE SumCountsOver(_, _)
SumCountsOver(state, as) ==
    IF as = {} THEN 0
    ELSE LET a == CHOOSE x \in as : TRUE
         IN state.actions[a].count + SumCountsOver(state, as \ {a})

SumCounts(state) == SumCountsOver(state, DOMAIN state.actions)

(* C12: with overlapping requests, a step that replaces one parseable       *)
(* canonical document by another keeps every action of the old document     *)
(* and every weight key of each of its actions.                             *)

C12_KeysNeverRemoved ==
    [][(HasDoc /\ HasDoc') =>
          \A a \in DOMAIN Persisted.actions :
             /\ a \in DOMAIN Persisted'.actions
             /\ DOMAIN Persisted.actions[a].weights
                   \subseteq DOMAIN Persisted'.actions[a].weights]_vars

(* C17: with overlapping requests starting from no state file, whenever     *)
(* the canonical file holds a complete document the sum of its actions'     *)
(* counts equals its meta.updates.                                          *)

C17_CountsSumToUpdates ==
    HasDoc => SumCounts(Persisted) = Persisted.meta.updates

\* two overlapping Learn requests both returned updates = 1 (one update was
\* lost) and the canonical document holds one update
C17_Witness ==
    /\ HasDoc
    /\ Persisted.meta.updates = 1
    /\ \A p \in Procs : Served(p, "learn") /\ resp[p].updates = 1

(* C18: with two requests inside _save_state at once, every step that       *)
(* changes what is at the canonical path is a rename by a request that      *)
(* leaves there the complete serialization of that request's state.         *)

C18_ConcurrentSaveComplete ==
    [][Canonical' # Canonical =>
          \E p \in Procs :
             /\ pc[p] = "replace"
             /\ pc'[p] = "done"
             /\ Canonical' = <<TRUE, Serialized(st[p])>>]_vars

(* C19: an Act request with candidates, served with no other request in    *)
(* flight, leaves a persisted state that differs from the one it loaded     *)
(* only by additions: meta is the same, every action it loaded keeps its    *)
(* count and weights, the new actions are candidates with count 0, and the  *)
(* new weights are zeros for the request's feature keys on candidates.      *)

C19_ActOnlyAdds ==
    \A p \in Procs :
        (Served(p, "act") /\ req[p].actions # <<>>) =>
            LET old == loaded[p]
                new == Persisted
                cands == SeqToSet(req[p].actions)
                keys == FeatureKeys(req[p])
            IN /\ HasDoc
               /\ new.meta = old.meta
               /\ DOMAIN new.actions = (DOMAIN old.actions) \cup cands
               /\ \A a \in DOMAIN new.actions :
                     /\ new.actions[a].count = OldCount(old, a)
                     /\ DOMAIN new.actions[a].weights =
                           (DOMAIN OldWeights(old, a)) \cup (IF a \in cands THEN keys ELSE {})
                     /\ \A k \in DOMAIN new.actions[a].weights :
                           new.actions[a].weights[k] = Get(OldWeights(old, a), k, 0)

\* an exploring Act was served that loaded a learned action and added both a
\* new candidate and a new weight key
C19_Witness ==
    \E p \in Procs :
        /\ Served(p, "act")
        /\ resp[p].mode = "explore"
        /\ \E a \in DOMAIN loaded[p].actions :
              /\ loaded[p].actions[a].count > 0
              /\ \E k \in DOMAIN loaded[p].actions[a].weights :
                    loaded[p].actions[a].weights[k] # 0
              /\ DOMAIN Persisted.actions[a].weights # DOMAIN loaded[p].actions[a].weights
        /\ DOMAIN Persisted.actions # DOMAIN loaded[p].actions

\* the worker is inside _save_state
InSave(p) == pc[p] \in {"open", "write", "replace"}

(* C14: with saves that may fail at any system call, a request that leaves  *)
(* _save_state with a success response has just renamed the complete        *)
(* serialization of its state to the canonical path; a request that failed  *)
(* never turns into a success and never re-enters _save_state.              *)

C14_SaveFailureNotAbsorbed ==
    [][\A p \in Procs :
          /\ (InSave(p) /\ pc'[p] = "done" /\ resp'[p].status = "ok") =>
                (pc[p] = "replace" /\ Canonical' = <<TRUE, Serialized(st[p])>>)
          /\ (InSave(p) /\ pc'[p] = "done" /\ resp'[p].status # "ok") =>
                (resp'[p] = ErrorResponse /\ dir' = dir)
          /\ (pc[p] = "done" /\ resp[p].status = "error") =>
                (pc'[p] \in {"done", "idle"} /\ resp'[p].status # "ok")]_vars

\* an Act request failed while the temp file was partly written
C14_Witness ==
    \E p \in Procs :
        /\ pc[p] = "done"
        /\ req[p].op = "act"
        /\ resp[p] = ErrorResponse
        /\ Exists(tmp)
        /\ Len(Content(tmp)) \in 1..(NChunks - 1)

(* C20: with one request in flight whose save may fail at any system call, *)
(* a request that ended with a failure leaves at the canonical path what    *)
(* was there when it loaded: a load after it returns the state it loaded.   *)

C20_FailedSaveKeepsFile ==
    \A p \in Procs :
        (pc[p] = "done" /\ resp[p].status = "error") =>
            /\ Persisted = loaded[p]
            /\ HasDoc => Canonical = <<TRUE, Serialized(loaded[p])>>

\* a Learn request that changed its in-memory state failed at the rename,
\* after the temp file was completely written, while a state file exists
C20_Witness ==
    \E p \in Procs :
        /\ pc[p] = "done"
        /\ req[p].op = "learn"
        /\ resp[p].status = "error"
        /\ HasDoc
        /\ st[p] # loaded[p]
        /\ Exists(tmp)
        /\ Content(tmp) = Serialized(st[p])

\* the canonical file holds a document of the structure _load_state's
\* default has: an object whose "actions" and "meta" are objects
StoredWell ==
    /\ HasDoc
    /\ IsDict(Persisted)
    /\ {"actions", "meta"} \subseteq DOMAIN Persisted
    /\ IsDict(Persisted.actions)
    /\ IsDict(Persisted.meta)

\* a loaded document with the defaults the handlers fill in
WithDefaults(document) ==
    SetDefault(SetDefault(document, "meta", DefaultMeta), "actions", EmptyMap)

(* C13: a request that starts while the canonical file is missing, does not *)
(* parse, or holds JSON that is not an object with object "actions" and     *)
(* "meta", works on the fresh default state and does not fail.              *)

C13_MalformedStateRecovered ==
    [][\A p \in Procs :
          (pc[p] = "idle" /\ pc'[p] # "idle" /\ ~StoredWell) =>
              /\ resp'[p].status # "error"
              /\ WithDefaults(loaded'[p]) = FreshState]_vars

(* C15: a Learn request whose reward is nan never reaches _save_state and   *)
(* ends as a failure, and no weight of a well-formed persisted state is nan *)

C15_NonFiniteRewardRejected ==
    /\ \A p \in Procs :
          (pc[p] # "idle" /\ req[p].op = "learn" /\ IsNaN(req[p].reward)) =>
              (pc[p] = "done" /\ resp[p].status = "error")
    /\ StoredWell =>
          \A a \in DOMAIN Persisted.actions :
             \A k \in DOMAIN Persisted.actions[a].weights :
                ~IsNaN(Persisted.actions[a].weights[k])

(* C16: a Learn request whose action id is the empty string never reaches   *)
(* _save_state and ends as a failure, and no well-formed persisted state    *)
(* has an action entry keyed by the empty string.                           *)

C16_EmptyActionIdRejected ==
    /\ \A p \in Procs :
          (pc[p] # "idle" /\ req[p].op = "learn" /\ req[p].action_id = "") =>
              (pc[p] = "done" /\ resp[p].status = "error")
    /\ StoredWell => "" \notin DOMAIN Persisted.actions

====
